---- MODULE Spec2Model ----
(***************************************************************************)
(* BetterFrame content script (src/content.js): the transcript pipeline,   *)
(* the runs of handleTranscribe against the vendor, and the player         *)
(* controls (button injection, skip buttons, keyboard shortcuts).          *)
(*                                                                         *)
(* A completed vendor result is turned into segments by                    *)
(* convertWordsToSegments, rendered by createTranscriptUI, and a text      *)
(* selection inside a rendered segment is mapped to a playback time by     *)
(* seekToEstimatedTime.                                                    *)
(*                                                                         *)
(* Conventions                                                             *)
(*   - a JavaScript string is a sequence of one-character strings;         *)
(*   - a JavaScript value that may be undefined or null is a record        *)
(*     [t, v] with t in {"undefined", "null", "string", "array"};          *)
(*   - a Number is an exact rational [n, d] in lowest terms, d > 0.  The   *)
(*     one place of the pipeline where binary64 rounding decides a branch  *)
(*     (the pause test of the segmenter) is modelled with its rounding,    *)
(*     see Binary64GapAboveOne;                                            *)
(*   - arrays are 1-based here and 0-based in the source: the index the    *)
(*     source calls i is i + 1 here, and selectedStartWord is kept         *)
(*     0-based as the source logs it.                                      *)
(***************************************************************************)
EXTENDS Integers, Sequences, FiniteSets, TLC

VARIABLES
    pc,          \* position of the handleTranscribe run
    result,      \* data returned by pollTranscription (status 'completed')
    transcript,  \* value returned by transcribeVideo
    content,     \* children of .betterframe-transcript-content
    video,       \* the page's <video>: [present, currentTime]
    listening,   \* the mouseup listener of the content area is registered
    menu,        \* #betterframe-selection-menu: [present, selectedText, segment]
    seekLog,     \* the seekToEstimatedTime call of the handler that ran last
    attempts,    \* the runs of handleTranscribe, in the order they started
    body,        \* the sidebar and toggle elements among document.body's children
    buttonsInjected,   \* the script's flag of that name
    controls,    \* the player controls: [playButton, injected, pointerEvents]
    insertions,  \* how many times injectButtons has inserted its buttons
    keydownListeners,  \* keydown listeners addKeyboardShortcuts has registered
    observerQueued,    \* a MutationObserver callback is waiting to run
    duration,    \* video.duration: a Number, NaN before the metadata is there
    skipLog,     \* the skip button press or keydown that was handled last
    selectLog,   \* the handleTextSelection call that ran last
    loading,     \* #betterframe-loading and the pending hide timers
    storage,     \* chrome.storage.sync: the value under each key
    popup,       \* the popup page: its input, its message, a save in flight
    playerContainer,   \* the host's player container: [present, marginLeft]
    editors,     \* the page's textareas and editable elements, document order
    commentLog,  \* the addToCommentBox call of the handler that ran last
    commentTimers      \* the elements a pending 50 ms timer will write into

transcriptVars == <<pc, result, transcript, content, listening, menu, seekLog>>
runVars == <<attempts, body>>
playerVars == <<buttonsInjected, controls, insertions, keydownListeners,
                observerQueued, duration, skipLog>>

pageVars == <<selectLog, loading, storage, popup, playerContainer, editors,
              commentLog, commentTimers>>

vars == <<pc, result, transcript, content, video, listening, menu, seekLog,
          attempts, body, buttonsInjected, controls, insertions,
          keydownListeners, observerQueued, duration, skipLog, selectLog,
          loading, storage, popup, playerContainer, editors, commentLog,
          commentTimers>>

----------------------------------------------------------------------------
(* JavaScript values *)

Undefined == [t |-> "undefined", v |-> <<>>]
Null == [t |-> "null", v |-> <<>>]
Str(s) == [t |-> "string", v |-> s]
Arr(a) == [t |-> "array", v |-> a]

\* ToBoolean: undefined, null and "" are falsy; every array is truthy.
Truthy(x) ==
    CASE x.t = "string" -> x.v # <<>>
      [] x.t = "array" -> TRUE
      [] OTHER -> FALSE

----------------------------------------------------------------------------
(* Numbers *)

RECURSIVE GCD(_, _)
GCD(a, b) == IF b = 0 THEN a ELSE GCD(b, a % b)

Abs(x) == IF x < 0 THEN -x ELSE x

\* The rational n/d in lowest terms with a positive denominator.
Rat(n, d) ==
    LET s == IF d < 0 THEN -1 ELSE 1
        g == GCD(Abs(n), Abs(d))
    IN [n |-> (s * n) \div g, d |-> (s * d) \div g]

\* NaN, the value of video.duration while no metadata is loaded
NaN == [n |-> 0, d |-> 0]
IsNaN(x) == x.d = 0

Num(k) == [n |-> k, d |-> 1]
NumAdd(x, y) == Rat(x.n * y.d + y.n * x.d, x.d * y.d)
NumSub(x, y) == Rat(x.n * y.d - y.n * x.d, x.d * y.d)
NumMul(x, y) == Rat(x.n * y.n, x.d * y.d)
NumDiv(x, y) == Rat(x.n * y.d, x.d * y.n)
NumLt(x, y) == x.n * y.d < y.n * x.d
NumLeq(x, y) == x.n * y.d <= y.n * x.d
\* Math.max and Math.min give NaN as soon as one argument is NaN
MathMax(x, y) ==
    IF IsNaN(x) \/ IsNaN(y) THEN NaN ELSE IF NumLt(x, y) THEN y ELSE x
MathMin(x, y) ==
    IF IsNaN(x) \/ IsNaN(y) THEN NaN ELSE IF NumLt(y, x) THEN y ELSE x
MathFloor(x) == x.n \div x.d

----------------------------------------------------------------------------
(* Strings *)

DigitChars == <<"0", "1", "2", "3", "4", "5", "6", "7", "8", "9">>
IsDigit(c) == \E k \in 1..10 : DigitChars[k] = c
DigitValue(c) == (CHOOSE k \in 1..10 : DigitChars[k] = c) - 1

RECURSIVE IntToString(_)
IntToString(k) ==
    IF k < 10 THEN <<DigitChars[k + 1]>>
    ELSE IntToString(k \div 10) \o <<DigitChars[(k % 10) + 1]>>

RECURSIVE Join(_, _)
\* Array.prototype.join
Join(parts, sep) ==
    IF parts = <<>> THEN <<>>
    ELSE IF Len(parts) = 1 THEN parts[1]
    ELSE parts[1] \o sep \o Join(Tail(parts), sep)

\* String.prototype.includes
Includes(hay, needle) ==
    \E k \in 0..(Len(hay) - Len(needle)) :
        SubSeq(hay, k + 1, k + Len(needle)) = needle

\* \s of a regular expression, over the characters the model uses
IsSpace(c) == c \in {" ", "\t", "\n"}

RECURSIVE SplitFrom(_, _, _)
\* str.split(/\s+/): the pieces between maximal runs of white space; a run at
\* the start or at the end leaves an empty piece there, and "" gives [""].
SplitFrom(s, k, piece) ==
    IF k > Len(s) THEN <<piece>>
    ELSE IF IsSpace(s[k])
         THEN LET rest == CHOOSE m \in (k + 1)..(Len(s) + 1) :
                              /\ \A q \in k..(m - 1) : IsSpace(s[q])
                              /\ (m <= Len(s) => ~IsSpace(s[m]))
              IN <<piece>> \o SplitFrom(s, rest, <<>>)
         ELSE SplitFrom(s, k + 1, Append(piece, s[k]))

SplitWhitespace(s) == SplitFrom(s, 1, <<>>)

\* Array.prototype.slice(from, to) with 0-based bounds, to clipped to length
Slice(a, from, to) ==
    SubSeq(a, from + 1, IF to > Len(a) THEN Len(a) ELSE to)

----------------------------------------------------------------------------
(* Segmenter: convertWordsToSegments, src/content.js 284-330 *)

\* word.start / 1000, word.end / 1000: milliseconds to seconds
MsToSec(ms) == NumDiv(Num(ms), Num(1000))

\* /[.!?]$/.test(word.text)
isPunctuation(text) ==
    /\ text # <<>>
    /\ text[Len(text)] \in {".", "!", "?"}

\* The end times e (ms), among the time values the model draws from, for
\* which the binary64 evaluation of (e + 1000) / 1000 - e / 1000 is above
\* 1.0: 2.2 - 1.2, 4.4 - 3.4 and 4.9 - 3.9 give 1.0000000000000002 or
\* 1.0000000000000004.  For the other values (0, 200, 400, 450, 500, 800,
\* 2000, 2200, 2400 and 10000 to 20000 in steps of 2000) the difference is
\* 1.0 or 0.9999999999999999.
Binary64RoundsUpEnds == {1200, 3400, 3900}

\* nextWordGap > 1.0 as binary64 arithmetic decides it, for word i ending at
\* endMs and word i + 1 starting at startMs.  The rounding of the two
\* divisions and of the subtraction changes the outcome only where the
\* exact gap is 1000 ms.
Binary64GapAboveOne(startMs, endMs) ==
    \/ startMs - endMs > 1000
    \/ /\ startMs - endMs = 1000
       /\ endMs \in Binary64RoundsUpEnds

\* const nextWordGap = i < words.length - 1 ? ... : 0;
\* const shouldBreak = isPunctuation || nextWordGap > 1.0;
shouldBreak(words, i) ==
    \/ isPunctuation(words[i].text)
    \/ /\ i < Len(words)
       /\ Binary64GapAboveOne(words[i + 1].start, words[i].end)

\* NewSegment with the start read from the wrong field (word.end)
NewSegmentFromEnd(word) ==
    [start |-> MsToSec(word.end), end |-> MsToSec(word.end), text |-> <<>>]

\* the segment opened at a word: { start, end, text: '' }
NewSegment(word) ==
    [start |-> MsToSec(word.start), end |-> MsToSec(word.end), text |-> <<>>]

\* AddWord without the update of currentSegment.end
AddWordKeepsEnd(currentSegment, word) ==
    [currentSegment EXCEPT
        !.text = @ \o (IF @ # <<>> THEN <<" ">> ELSE <<>>) \o word.text]

\* currentSegment.text += (currentSegment.text ? ' ' : '') + word.text;
\* currentSegment.end = wordEnd;
AddWord(currentSegment, word) ==
    [currentSegment EXCEPT
        !.text = @ \o (IF @ # <<>> THEN <<" ">> ELSE <<>>) \o word.text,
        !.end = MsToSec(word.end)]

RECURSIVE SegmentLoop(_, _, _, _)
\* the for loop, from index i on
SegmentLoop(words, i, currentSegment, segments) ==
    IF i > Len(words) THEN segments
    ELSE LET cur == AddWord(currentSegment, words[i])
         IN IF shouldBreak(words, i) \/ i = Len(words)
            THEN SegmentLoop(words, i + 1,
                             IF i < Len(words) THEN NewSegment(words[i + 1])
                             ELSE cur,
                             Append(segments, cur))
            ELSE SegmentLoop(words, i + 1, cur, segments)

\* words is a JavaScript value: undefined, null or an array of words
convertWordsToSegments(words) ==
    IF ~Truthy(words) \/ Len(words.v) = 0 THEN <<>>
    ELSE SegmentLoop(words.v, 1, NewSegment(words.v[1]), <<>>)

\* the tail of transcribeVideo, from the resolved pollTranscription on
transcribeVideo(data) ==
    [text |-> data.text,
     segments |-> IF Truthy(data.words) THEN convertWordsToSegments(data.words)
                  ELSE <<>>]

----------------------------------------------------------------------------
(* Rendering: formatTimestamp and createTranscriptUI *)

\* Number to String for the values the pipeline produces, k / 1000 with
\* k >= 0: the shortest decimal, "1.2" for 1200 / 1000 and "3" for 3.
RECURSIVE StripZeros(_)
StripZeros(digits) ==
    IF digits # <<>> /\ digits[Len(digits)] = "0"
    THEN StripZeros(SubSeq(digits, 1, Len(digits) - 1))
    ELSE digits

NumberToString(x) ==
    LET k == x.n * (1000 \div x.d)
        frac == k % 1000
        three == <<DigitChars[(frac \div 100) + 1],
                   DigitChars[((frac \div 10) % 10) + 1],
                   DigitChars[(frac % 10) + 1]>>
    IN IntToString(k \div 1000)
           \o (IF frac = 0 THEN <<>> ELSE <<".">> \o StripZeros(three))

RECURSIVE DigitsValue(_)
DigitsValue(digits) ==
    IF digits = <<>> THEN 0
    ELSE 10 * DigitsValue(SubSeq(digits, 1, Len(digits) - 1))
             + DigitValue(digits[Len(digits)])

RECURSIVE Pow10(_)
Pow10(k) == IF k = 0 THEN 1 ELSE 10 * Pow10(k - 1)

\* parseFloat of a decimal string "ddd" or "ddd.ddd"
parseFloat(s) ==
    LET dots == {k \in 1..Len(s) : s[k] = "."}
        dot == IF dots = {} THEN Len(s) + 1 ELSE CHOOSE k \in dots : TRUE
        whole == SubSeq(s, 1, dot - 1)
        frac == SubSeq(s, dot + 1, Len(s))
    IN NumAdd(Num(DigitsValue(whole)),
              Rat(DigitsValue(frac), Pow10(Len(frac))))

\* `${mins}:${secs.toString().padStart(2, '0')}`
formatTimestamp(seconds) ==
    LET mins == MathFloor(NumDiv(seconds, Num(60)))
        secs == MathFloor(NumSub(seconds, Num(60 * mins)))
    IN IntToString(mins) \o <<":">>
           \o (IF secs < 10 THEN <<"0">> ELSE <<>>) \o IntToString(secs)

NoTranscription ==
    <<"N", "o", " ", "t", "r", "a", "n", "s", "c", "r", "i", "p", "t", "i",
      "o", "n", " ", "a", "v", "a", "i", "l", "a", "b", "l", "e">>

\* one .betterframe-transcript-segment: its dataset and its two spans
SegmentElement(segment) ==
    [tag |-> "segment",
     startTime |-> NumberToString(segment.start),
     endTime |-> NumberToString(segment.end),
     timestamp |-> formatTimestamp(segment.start),
     text |-> segment.text]

\* transcriptData.text || 'No transcription available'
ParagraphElement(text) ==
    [tag |-> "p", text |-> IF Truthy(text) THEN text.v ELSE NoTranscription]

\* TranscriptContent with the test reduced to `if (transcriptData.segments)`:
\* an empty array is truthy, so the paragraph is never made
TranscriptContentAnyArray(transcriptData) ==
    [k \in 1..Len(transcriptData.segments) |->
        SegmentElement(transcriptData.segments[k])]

\* the children createTranscriptUI appends to the content area
TranscriptContent(transcriptData) ==
    IF Len(transcriptData.segments) > 0
    THEN [k \in 1..Len(transcriptData.segments) |->
              SegmentElement(transcriptData.segments[k])]
    ELSE <<ParagraphElement(transcriptData.text)>>

----------------------------------------------------------------------------
(* The vendor's completed results *)

MaxWords == 3

Word(text, start, end) == [text |-> text, start |-> start, end |-> end]

\* word start times come in non-decreasing order (the vendor's ordering);
\* a word's end may lie after the next word's start, or before its own start
Chronological(words) ==
    \A k \in 1..(Len(words) - 1) : words[k].start <= words[k + 1].start

SegTimes == {200, 1200, 2200}

SegTexts == {<<"a">>, <<>>, <<"b", ".">>}

SegWords == [text : SegTexts, start : SegTimes, end : SegTimes]

SegWordSeqs ==
    UNION {{w \in [1..k -> SegWords] : Chronological(w)} : k \in 1..MaxWords}

\* the full text the vendor sends along with the words
FullText(words) == Join([k \in 1..Len(words) |-> words[k].text], <<" ">>)

Completed(words) == [text |-> Str(FullText(words)), words |-> Arr(words)]

\* results without word-level timing
TextOnly == <<"h", "i">>

ZeroWordResults ==
    [text : {Undefined, Null, Str(<<>>), Str(TextOnly)},
     words : {Undefined, Null, Arr(<<>>)}]

\* the inputs of the specification's examples (spec.md, section 8)
BoundaryWords ==
    <<Word(<<"I">>, 0, 500), Word(<<"a", "m", ".">>, 500, 1200),
      Word(<<"N", "e", "x", "t">>, 3400, 3900)>>

GapWords ==
    <<Word(<<"H", "e", "l", "l", "o">>, 0, 400),
      Word(<<"w", "o", "r", "l", "d">>, 2000, 2400)>>

NoBreakWords ==
    <<Word(<<"H", "e", "l", "l", "o">>, 0, 400),
      Word(<<"w", "o", "r", "l", "d">>, 450, 800)>>

\* further endings the punctuation test reads, and a sequence out of order
EndingsWords ==
    <<Word(<<"N", "o", "!">>, 0, 400), Word(<<"W", "h", "y", "?">>, 400, 800),
      Word(<<"?", "o", "h">>, 800, 1200), Word(<<"a", ".", "m", ".">>, 1200, 2000),
      Word(<<"e", "n", "d">>, 2000, 2400)>>

UnorderedWords ==
    <<Word(<<"l", "a", "t", "e", ".">>, 2200, 2400),
      Word(<<"e", "a", "r", "l", "y">>, 200, 450)>>

ExampleResults ==
    {Completed(w) : w \in {BoundaryWords, GapWords, NoBreakWords,
                            EndingsWords, UnorderedWords}}

SegResults ==
    ZeroWordResults \cup ExampleResults
        \cup {Completed(w) : w \in SegWordSeqs}

----------------------------------------------------------------------------
(* State machine *)

NoResult == [text |-> Undefined, words |-> Undefined]
NoTranscript == [text |-> Undefined, segments |-> <<>>]
NoMenu == [present |-> FALSE, selectedText |-> <<>>, segment |-> 0]
NoSeek == [called |-> FALSE]
NoSkip == [kind |-> "none"]
NoControls ==
    [playButton |-> FALSE, injected |-> 0, pointerEvents |-> "auto",
     title |-> ""]

SidebarId == "betterframe-transcript-sidebar"
ToggleId == "betterframe-transcript-toggle"

\* document.getElementById(id).remove() when the element exists: the first
\* element of that id in document order goes
RemoveById(elements, id) ==
    LET at == {k \in 1..Len(elements) : elements[k].id = id}
    IN IF at = {} THEN elements
       ELSE LET first == CHOOSE k \in at : \A m \in at : k <= m
            IN SubSeq(elements, 1, first - 1)
                   \o SubSeq(elements, first + 1, Len(elements))

\* createTranscriptUI on document.body: the existing sidebar and toggle are
\* removed, then a new sidebar and a new toggle button are appended.  owner
\* is the run of handleTranscribe the transcript belongs to.
TranscriptUI(elements, owner) ==
    RemoveById(RemoveById(elements, SidebarId), ToggleId)
        \o <<[id |-> SidebarId, owner |-> owner, hidden |-> FALSE,
              title |-> ""],
             [id |-> ToggleId, owner |-> owner, hidden |-> FALSE,
              title |-> "Hide Transcript"]>>

\* adjustPageLayout with the container pushed aside whatever the sidebar does
adjustPageLayoutAlwaysPushed(container, sidebarVisible) ==
    IF container.present
    THEN [container EXCEPT !.marginLeft = "400px"]
    ELSE container

\* adjustPageLayout: the style of the player container when one of the
\* three selectors finds it; without it the function only warns
adjustPageLayout(container, sidebarVisible) ==
    IF container.present
    THEN [container EXCEPT
             !.marginLeft = IF sidebarVisible THEN "400px" ELSE "0px"]
    ELSE container

\* showLoadingMessage creates #betterframe-loading when it is not there and
\* displays it; the message text is not part of the state
showLoadingMessage(l) == [l EXCEPT !.present = TRUE, !.display = "block"]

hideLoadingMessage(l) == IF l.present THEN [l EXCEPT !.display = "none"] ELSE l

\* setTimeout(hideLoadingMessage, 2000)
HideLater(l) == [l EXCEPT !.hideTimers = @ + 1]

\* no selection handled, no addToCommentBox call yet
NoSelect == [kind |-> "none"]
NoComment == [kind |-> "none"]

\* showLoadingMessage was never called: the element is not in the document
NoLoading == [present |-> FALSE, display |-> "none", hideTimers |-> 0]

\* chrome.storage.sync as the extension finds it after installation
NoKeys == [openaiApiKey |-> Undefined, assemblyaiApiKey |-> Undefined]

\* the keys the popup writes and the content script reads
PopupKeyName == "openaiApiKey"
ContentKeyName == "assemblyaiApiKey"

\* the popup is not open.  value is the text of #apiKey, success and error
\* are what the two messages display, disabled is the save button's
\* attribute, saving holds the keys whose storage.set is not answered yet,
\* loadPending tells that loadApiKey's storage.get is not answered yet and
\* hideTimers counts the pending 3-second timers of the success message.
ClosedPopup ==
    [open |-> FALSE, value |-> <<>>, success |-> FALSE, error |-> "none",
     disabled |-> FALSE, saving |-> <<>>, loadPending |-> FALSE,
     hideTimers |-> 0]

\* the page has no element of class ReviewLinkPlayer__Container
NoContainer == [present |-> FALSE, marginLeft |-> ""]

Init ==
    /\ pc = "idle"
    /\ result = NoResult
    /\ transcript = NoTranscript
    /\ content = <<>>
    /\ video = [present |-> TRUE, currentTime |-> Num(0)]
    /\ listening = FALSE
    /\ menu = NoMenu
    /\ seekLog = NoSeek
    /\ attempts = <<>>
    /\ body = <<>>
    /\ buttonsInjected = FALSE
    /\ controls = NoControls
    /\ insertions = 0
    /\ keydownListeners = 0
    /\ observerQueued = FALSE
    /\ duration = NaN
    /\ skipLog = NoSkip
    /\ selectLog = NoSelect
    /\ loading = NoLoading
    /\ storage = NoKeys
    /\ popup = ClosedPopup
    /\ playerContainer = NoContainer
    /\ editors = <<>>
    /\ commentLog = NoComment
    /\ commentTimers = {}

\* handleTranscribe, up to the await of transcribeVideo: the request is in
\* flight with the vendor
handleTranscribe ==
    /\ pc = "idle"
    /\ video.present
    /\ pc' = "polling"
    /\ loading' = showLoadingMessage(loading)
    /\ UNCHANGED <<result, transcript, content, video, listening, menu, seekLog>>
    /\ UNCHANGED <<runVars, playerVars, selectLog, storage, popup,
                   playerContainer, editors, commentLog, commentTimers>>

\* pollTranscription observes status 'completed' and returns data;
\* transcribeVideo converts it and returns { text, segments }
PollCompleted(data) ==
    /\ pc = "polling"
    /\ result' = data
    /\ transcript' = transcribeVideo(data)
    /\ pc' = "transcribed"
    /\ UNCHANGED <<content, video, listening, menu, seekLog>>
    /\ UNCHANGED <<runVars, playerVars, pageVars>>

\* handleTranscribe resumes: createTranscriptUI(transcript), which ends in
\* addTimestampInteractivity; that one returns early without a video and
\* otherwise ends in addTextSelectionHandler, which removes a selection menu
\* left on the page and registers the mouseup listener.  The run that pc
\* follows is numbered 0; the runs of `attempts` are numbered from 1.
createTranscriptUI ==
    /\ pc = "transcribed"
    /\ content' = TranscriptContent(transcript)
    /\ listening' = video.present
    /\ menu' = IF video.present THEN NoMenu ELSE menu
    /\ pc' = "shown"
    /\ seekLog' = NoSeek
    /\ body' = TranscriptUI(body, 0)
    /\ playerContainer' = adjustPageLayout(playerContainer, TRUE)
    /\ loading' = HideLater(showLoadingMessage(loading))
    /\ selectLog' = NoSelect
    /\ commentLog' = NoComment
    /\ UNCHANGED <<result, transcript, video, attempts, playerVars, storage,
                   popup, editors, commentTimers>>

\* the vendor completes the job in flight with one of the results
VendorCompletes(results) ==
    /\ pc = "polling"
    /\ \E data \in results : PollCompleted(data)

SegNext ==
    \/ handleTranscribe
    \/ VendorCompletes(SegResults)
    \/ createTranscriptUI

SegSpec == Init /\ [][SegNext]_vars

----------------------------------------------------------------------------
(* Properties of the segmenter *)

Converted == pc \in {"transcribed", "shown"}
HasWords == result.words.t = "array" /\ result.words.v # <<>>
InputWords == result.words.v
Segments == transcript.segments

WordTexts(words) == [k \in 1..Len(words) |-> words[k].text]
SegmentTexts(segments) == [k \in 1..Len(segments) |-> segments[k].text]

\* the k-th smallest element of a set of numbers
Kth(S, k) == CHOOSE x \in S : Cardinality({y \in S : y <= x}) = k

\* with B the indices of the words that end a segment: the first and the
\* last word of the k-th segment
FirstWord(B, k) == IF k = 1 THEN 1 ELSE Kth(B, k - 1) + 1
LastWord(B, k) == Kth(B, k)

\* the segments have the times of the runs of words that B delimits
TimesFollow(words, segments, B) ==
    /\ Len(segments) = Cardinality(B)
    /\ \A k \in 1..Len(segments) :
          /\ segments[k].start = Rat(words[FirstWord(B, k)].start, 1000)
          /\ segments[k].end = Rat(words[LastWord(B, k)].end, 1000)

\* C1 as stated: for every non-empty word sequence, the segment texts joined
\* with single spaces are the word texts joined with single spaces.
C1_Partition ==
    (Converted /\ HasWords) =>
        Join(SegmentTexts(Segments), <<" ">>)
            = Join(WordTexts(InputWords), <<" ">>)

\* the boundary rule in exact arithmetic: terminal punctuation, a gap of
\* more than 1000 ms to the next word, or the last word
RuleBreak(words, i) ==
    \/ words[i].text # <<>> /\ words[i].text[Len(words[i].text)] \in {".", "!", "?"}
    \/ i < Len(words) /\ words[i + 1].start - words[i].end > 1000
    \/ i = Len(words)

BoundarySegments ==
    <<[start |-> Num(0), end |-> Rat(12, 10), text |-> <<"I", " ", "a", "m", ".">>],
      [start |-> Rat(34, 10), end |-> Rat(39, 10), text |-> <<"N", "e", "x", "t">>]>>

\* C2 as stated: a segment ends after word i exactly when the word ends in
\* '.', '!' or '?', or the gap to the next word exceeds 1.0 second, or it is
\* the last word; the example of three words gives its two segments.
C2_BoundaryRule ==
    (Converted /\ HasWords) =>
        /\ TimesFollow(InputWords, Segments,
                       {i \in 1..Len(InputWords) : RuleBreak(InputWords, i)})
        /\ (InputWords = BoundaryWords => Segments = BoundarySegments)

\* the indices after which the code closes a segment
CodeBreaks(words) ==
    {i \in 1..Len(words) : shouldBreak(words, i) \/ i = Len(words)}

\* C3: every segment starts at its first word's start / 1000 and ends at its
\* last word's end / 1000, whatever the words' times (end < start included).
C3_SegmentTimes ==
    (Converted /\ HasWords) =>
        TimesFollow(InputWords, Segments, CodeBreaks(InputWords))

\* a segment of two or more words whose end lies before its start: built
\* from a word that ends before it starts
C3_Witness ==
    /\ Converted /\ HasWords
    /\ \E k \in 1..Len(Segments) :
          /\ NumLt(Segments[k].end, Segments[k].start)
          /\ Includes(Segments[k].text, <<" ">>)
          /\ Segments[k].start # Num(0)

\* C4: for chronological words (start times non-decreasing, overlaps
\* allowed) the segments' start values are non-decreasing.
C4_Monotone ==
    (Converted /\ HasWords /\ Chronological(InputWords)) =>
        \A k \in 1..(Len(Segments) - 1) :
            NumLeq(Segments[k].start, Segments[k + 1].start)

\* three segments with increasing starts where a word overlaps the next one
C4_Witness ==
    /\ Converted /\ HasWords /\ Chronological(InputWords)
    /\ Len(Segments) = 3
    /\ NumLt(Segments[1].start, Segments[2].start)
    /\ NumLt(Segments[2].start, Segments[3].start)
    /\ \E k \in 1..(Len(InputWords) - 1) :
          InputWords[k + 1].start < InputWords[k].end

----------------------------------------------------------------------------
(* Properties of the zero-words case *)

ZeroWords == ~(result.words.t = "array" /\ result.words.v # <<>>)

\* the raw transcript text as a string ("" when the vendor sent none)
RawText == result.text.v

TimestampElements == {k \in 1..Len(content) : content[k].tag = "segment"}

\* C5 as stated: with no word list the segment sequence is empty and the
\* sidebar shows the raw transcript text as one block without timestamps.
C5_RawTextBlock ==
    /\ (Converted /\ ZeroWords) => Segments = <<>>
    /\ (pc = "shown" /\ ZeroWords) =>
          content = <<[tag |-> "p", text |-> RawText]>>

\* C5 amended: with no word list the segment sequence is empty and the
\* sidebar shows one block without timestamps, holding the raw transcript
\* text when it is a non-empty string and 'No transcription available'
\* when the text is empty, null or absent.
C5_ZeroWordsBlock ==
    /\ (Converted /\ ZeroWords) => Segments = <<>>
    /\ (pc = "shown" /\ ZeroWords) =>
          /\ Len(content) = 1
          /\ TimestampElements = {}
          /\ content[1].tag = "p"
          /\ content[1].text =
                 IF result.text.t = "string" /\ result.text.v # <<>>
                 THEN RawText ELSE NoTranscription

\* the sidebar shows the text of a result whose words are absent
C5_Witness ==
    /\ pc = "shown"
    /\ result.words = Undefined
    /\ result.text = Str(TextOnly)
    /\ content = <<[tag |-> "p", text |-> TextOnly]>>

----------------------------------------------------------------------------
(* Seek estimator: seekToEstimatedTime, src/content.js 1001-1070 *)

\* words.slice(i, i + selectedWords.length).join(' ')
Phrase(words, selectedWords, i) ==
    Join(Slice(words, i, i + Len(selectedWords)), <<" ">>)

\* phrase.includes(selectedText) || selectedText.includes(phrase)
PhraseMatches(words, selectedWords, selectedText, i) ==
    LET phrase == Phrase(words, selectedWords, i)
    IN Includes(phrase, selectedText) \/ Includes(selectedText, phrase)

\* NotFoundIndex as the index the loop ended on
NotFoundLast(words) == Len(words) - 1

\* the value selectedStartWord keeps when the loop finds nothing
NotFoundIndex(words) == 0

\* SearchFrom without the break: the last match wins
SearchLast(words, selectedWords, selectedText, i) ==
    LET found == {j \in i..(Len(words) - 1) :
                     PhraseMatches(words, selectedWords, selectedText, j)}
    IN IF found = {} THEN 0
       ELSE CHOOSE j \in found : \A m \in found : m <= j

RECURSIVE SearchFrom(_, _, _, _)
\* the search loop from index i (0-based) on: the first match breaks it
SearchFrom(words, selectedWords, selectedText, i) ==
    IF i >= Len(words) THEN NotFoundIndex(words)
    ELSE IF PhraseMatches(words, selectedWords, selectedText, i) THEN i
    ELSE SearchFrom(words, selectedWords, selectedText, i + 1)

\* SeekTime four word-widths early instead of three
SeekTimeFourWords(segmentStart, estimatedTime, timePerWord) ==
    MathMax(segmentStart, NumSub(estimatedTime, NumMul(Num(4), timePerWord)))

\* SeekTime without the clamp at the segment's start
SeekTimeUnclamped(segmentStart, estimatedTime, timePerWord) ==
    NumSub(estimatedTime, NumMul(Num(3), timePerWord))

\* Math.max(segmentStart, estimatedTime - (3 * timePerWord))
SeekTime(segmentStart, estimatedTime, timePerWord) ==
    MathMax(segmentStart, NumSub(estimatedTime, NumMul(Num(3), timePerWord)))

\* what seekToEstimatedTime computes and logs for a selection in a segment
\* element, with a video on the page
SeekEstimate(selectedText, segment) ==
    LET segmentStart == parseFloat(segment.startTime)
        segmentEnd == parseFloat(segment.endTime)
        segmentDuration == NumSub(segmentEnd, segmentStart)
        words == SplitWhitespace(segment.text)
        totalWords == Len(words)
        selectedWords == SplitWhitespace(selectedText)
        selectedStartWord == SearchFrom(words, selectedWords, selectedText, 0)
        timePerWord == NumDiv(segmentDuration, Num(totalWords))
        estimatedTime ==
            NumAdd(segmentStart, NumMul(Num(selectedStartWord), timePerWord))
    IN [called |-> TRUE,
        videoFound |-> TRUE,
        selectedText |-> selectedText,
        segment |-> segment,
        totalWords |-> totalWords,
        selectedStartWord |-> selectedStartWord,
        seekTime |-> SeekTime(segmentStart, estimatedTime, timePerWord)]

\* the call returns at once when the page has no video
NoVideoSeek == [called |-> TRUE, videoFound |-> FALSE]

\* handleLongPauseAction looks the selection up itself (findIndex) and
\* returns before the comment and the seek when it finds nothing
LongPauseFound(selectedText, segment) ==
    LET words == SplitWhitespace(segment.text)
        selectedWords == SplitWhitespace(selectedText)
    IN \E i \in 0..(Len(words) - 1) :
           PhraseMatches(words, selectedWords, selectedText, i)

----------------------------------------------------------------------------
(* The comment box: addToCommentBox, src/content.js 835-996.  An element   *)
(* is [tag, placeholder, testid, role, contenteditable, visible, written]: *)
(* visible is offsetParent !== null, written tells that a comment was      *)
(* written into it.  The wording of the comment is not part of the state.  *)

MaxEditors == 2

UpperCase == <<"A", "B", "C", "D", "E", "F", "G", "H", "I", "J", "K", "L", "M",
               "N", "O", "P", "Q", "R", "S", "T", "U", "V", "W", "X", "Y", "Z">>
LowerCase == <<"a", "b", "c", "d", "e", "f", "g", "h", "i", "j", "k", "l", "m",
               "n", "o", "p", "q", "r", "s", "t", "u", "v", "w", "x", "y", "z">>

\* ASCII case folding, as the i flag of an attribute selector compares
FoldCase(s) ==
    [k \in 1..Len(s) |->
        IF \E j \in 1..26 : UpperCase[j] = s[k]
        THEN LowerCase[CHOOSE j \in 1..26 : UpperCase[j] = s[k]]
        ELSE s[k]]

\* [attr*="needle" i]: the attribute is there and contains the needle
AttrContains(attr, needle) ==
    attr.t = "string" /\ Includes(FoldCase(attr.v), FoldCase(needle))

\* [attr="value"]
AttrIs(attr, value) == attr = Str(value)

\* whether element e matches the n-th entry of selectors
Matches(e, n) ==
    CASE n = 1 -> e.tag = "TEXTAREA"
                  /\ AttrContains(e.placeholder,
                                  <<"c", "o", "m", "m", "e", "n", "t">>)
      [] n = 2 -> e.tag = "TEXTAREA"
                  /\ AttrContains(e.placeholder, <<"A", "d", "d">>)
      [] n = 3 -> e.tag = "TEXTAREA"
                  /\ AttrContains(e.testid,
                                  <<"c", "o", "m", "m", "e", "n", "t">>)
      [] n = 4 -> AttrIs(e.contenteditable, <<"t", "r", "u", "e">>)
                  /\ AttrIs(e.role, <<"t", "e", "x", "t", "b", "o", "x">>)
      [] n = 5 -> e.tag = "TEXTAREA"
      [] n = 6 -> AttrIs(e.contenteditable, <<"t", "r", "u", "e">>)

SelectorCount == 6

\* document.querySelector for the n-th selector: the first element in
\* document order that matches, 0 for null
querySelector(doc, n) ==
    IF \E k \in 1..Len(doc) : Matches(doc[k], n)
    THEN CHOOSE k \in 1..Len(doc) :
             /\ Matches(doc[k], n)
             /\ \A j \in 1..(k - 1) : ~Matches(doc[j], n)
    ELSE 0

\* the loop over selectors from the n-th on; commentBox is the variable of
\* that name as the previous round left it
RECURSIVE CommentBoxFrom(_, _, _)
CommentBoxFrom(doc, n, commentBox) ==
    IF n > SelectorCount THEN commentBox
    ELSE LET found == querySelector(doc, n)
         IN  IF found # 0 /\ doc[found].visible THEN found
             ELSE CommentBoxFrom(doc, n + 1, found)

\* the element addToCommentBox goes on with, 0 for null
FindCommentBox(doc) == CommentBoxFrom(doc, 1, 0)

----------------------------------------------------------------------------
(* Selection handlers *)

\* the non-empty selections inside one segment element: the contiguous parts
\* of its timestamp span followed by its text span
Substrings(s) ==
    {SubSeq(s, a, b) : a \in 1..Len(s), b \in 1..Len(s)} \ {<<>>}

SegmentSelections(k) == Substrings(content[k].timestamp \o content[k].text)

SegmentElements == {k \in 1..Len(content) : content[k].tag = "segment"}

\* OpensMenu when a selection of nothing but white space counts as empty
OpensMenuTrimmed(selectedText, container) ==
    /\ \E k \in 1..Len(selectedText) : ~IsSpace(selectedText[k])
    /\ container # 0

\* handleTextSelection's two early returns: the menu is created for a
\* selection that is not the empty string and lies in a segment element
OpensMenu(selectedText, container) ==
    /\ selectedText # <<>>
    /\ container # 0

\* mouseup in the content area: handleTextSelection.  container is the
\* segment element the selection lies in, 0 when it lies in none.
handleTextSelection(selectedText, container) ==
    /\ pc = "shown"
    /\ listening
    /\ menu' = IF OpensMenu(selectedText, container)
               THEN [present |-> TRUE, selectedText |-> selectedText,
                     segment |-> container]
               ELSE NoMenu
    /\ seekLog' = NoSeek
    /\ selectLog' = [kind |-> "selection", selectedText |-> selectedText,
                     container |-> container]
    /\ commentLog' = NoComment
    /\ UNCHANGED <<pc, result, transcript, content, video, listening>>
    /\ UNCHANGED <<runVars, playerVars, loading, storage, popup,
                   playerContainer, editors, commentTimers>>

\* a selection of some text inside segment element k
SelectInSegment ==
    \E k \in SegmentElements :
        \E selectedText \in SegmentSelections(k) :
            handleTextSelection(selectedText, k)

\* a click that leaves the selection empty
SelectNothing == handleTextSelection(<<>>, 0)

\* a selection that no single segment element contains (it spans segments,
\* or lies in the unsegmented paragraph)
SelectOutside ==
    /\ content # <<>>
    /\ handleTextSelection(content[1].text \o <<" ">>, 0)

\* mousedown outside the menu: the document listener removes the menu
documentMouseDown ==
    /\ pc = "shown"
    /\ listening
    /\ menu.present
    /\ menu' = NoMenu
    /\ seekLog' = NoSeek
    /\ selectLog' = NoSelect
    /\ commentLog' = NoComment
    /\ UNCHANGED <<pc, result, transcript, content, video, listening>>
    /\ UNCHANGED <<runVars, playerVars, loading, storage, popup,
                   playerContainer, editors, commentTimers>>

MenuLabels == {"Delete", "Long pause", "Unclear", "Add to comments", "Copy"}

\* whether the action behind a menu button reaches seekToEstimatedTime
Seeks(label) ==
    \/ label \in {"Delete", "Unclear", "Add to comments"}
    \/ /\ label = "Long pause"
       /\ LongPauseFound(menu.selectedText, content[menu.segment])

\* addToCommentBox: the alert when the loop leaves no element, otherwise
\* focus() and the 50 ms timer that writes the comment into the element
addToCommentBox ==
    LET commentBox == FindCommentBox(editors)
    IN  /\ commentLog' = [kind |-> "call", alerted |-> commentBox = 0,
                          target |-> commentBox]
        /\ commentTimers' = IF commentBox = 0 THEN commentTimers
                            ELSE commentTimers \cup {commentBox}
        /\ UNCHANGED editors

\* a click on a menu button: the action, then menu.remove().  The first
\* four actions compose a comment and call addToCommentBox, then
\* seekToEstimatedTime; Long pause returns before both when it does not
\* find the selection, and Copy calls neither.
menuButtonClick(label) ==
    /\ menu.present
    /\ menu' = NoMenu
    /\ selectLog' = NoSelect
    /\ IF Seeks(label)
       THEN /\ addToCommentBox
            /\ IF video.present
               THEN /\ seekLog' = SeekEstimate(menu.selectedText,
                                               content[menu.segment])
                    /\ video' = [video EXCEPT
                                    !.currentTime = seekLog'.seekTime]
               ELSE /\ seekLog' = NoVideoSeek
                    /\ UNCHANGED video
       ELSE /\ seekLog' = NoSeek
            /\ commentLog' = NoComment
            /\ UNCHANGED <<video, editors, commentTimers>>
    /\ UNCHANGED <<pc, result, transcript, content, listening>>
    /\ UNCHANGED <<runVars, playerVars, loading, storage, popup,
                   playerContainer>>

\* the 50 ms timer of an addToCommentBox call fires: the comment replaces
\* the element's value (a textarea) or its children (an editable element)
commentTimerFires(k) ==
    /\ k \in commentTimers
    /\ editors' = [editors EXCEPT ![k].written = TRUE]
    /\ commentTimers' = commentTimers \ {k}
    /\ UNCHANGED <<transcriptVars, runVars, playerVars, video, selectLog,
                   loading, storage, popup, playerContainer, commentLog>>

\* the host page renders one more textarea or editable element, after the
\* ones it has
hostRendersEditor(e) ==
    /\ Len(editors) < MaxEditors
    /\ editors' = Append(editors, e)
    /\ commentLog' = NoComment
    /\ UNCHANGED <<transcriptVars, runVars, playerVars, video, selectLog,
                   loading, storage, popup, playerContainer, commentTimers>>

\* the host page takes the player away (a route change of the review app)
hostRemovesVideo ==
    /\ video.present
    /\ pc = "shown"
    /\ video' = [present |-> FALSE, currentTime |-> Num(0)]
    /\ UNCHANGED <<pc, result, transcript, content, listening, menu, seekLog>>
    /\ UNCHANGED <<runVars, playerVars, pageVars>>

----------------------------------------------------------------------------
(* Results the seek estimator is explored on *)

MaxSeekWords == 5
MaxEdgeWords == 2

SeekTexts == {<<"a">>, <<"b">>}

\* words that follow each other without a gap, 2 s each, from 10 s on
Contiguous(texts) ==
    [k \in 1..Len(texts) |->
        Word(texts[k], 10000 + 2000 * (k - 1), 10000 + 2000 * k)]

EdgeTimes == {1000, 3000}
EdgeTexts == {<<"a">>, <<>>, <<"b", ".">>}
EdgeWords == [text : EdgeTexts, start : EdgeTimes, end : EdgeTimes]

EdgeWordSeqs ==
    UNION {{w \in [1..k -> EdgeWords] : Chronological(w)} : k \in 1..MaxEdgeWords}

\* the segment { start: 10.0, end: 20.0, text: "one two three four five" }
FiveWords ==
    Contiguous(<< <<"o", "n", "e">>, <<"t", "w", "o">>,
                  <<"t", "h", "r", "e", "e">>, <<"f", "o", "u", "r">>,
                  <<"f", "i", "v", "e">> >>)

SeekResults ==
    ZeroWordResults
        \cup {Completed(FiveWords)}
        \cup {Completed(Contiguous(t)) :
                 t \in UNION {[1..k -> SeekTexts] : k \in 1..MaxSeekWords}}
        \cup {Completed(w) : w \in EdgeWordSeqs}

SeekNext ==
    \/ handleTranscribe
    \/ VendorCompletes(SeekResults)
    \/ createTranscriptUI
    \/ SelectInSegment
    \/ SelectNothing
    \/ SelectOutside
    \/ documentMouseDown
    \/ \E label \in MenuLabels : menuButtonClick(label)
    \/ hostRemovesVideo

SeekSpec == Init /\ [][SeekNext]_vars

----------------------------------------------------------------------------
(* Properties of the seek estimator *)

\* the handler that ran last called seekToEstimatedTime with a video present,
\* and the page still has that video
Sought == seekLog.called /\ seekLog.videoFound /\ video.present

\* the segment (of the transcript) behind the element the call was given
SoughtSegment ==
    transcript.segments[CHOOSE k \in 1..Len(content) : content[k] = seekLog.segment]

\* the segment's tokens and the selection's tokens
Tokens == SplitWhitespace(SoughtSegment.text)
SelectionTokens == SplitWhitespace(seekLog.selectedText)

\* max(startSec, startSec + i * timePerWord - 3 * timePerWord) with
\* timePerWord = (endSec - startSec) / n, as one fraction over n
Formula(startSec, endSec, n, i) ==
    LET whole == startSec.n * endSec.d * n
        span == endSec.n * startSec.d - startSec.n * endSec.d
        shifted == whole + (i - 3) * span
    IN Rat(IF shifted > whole THEN shifted ELSE whole,
           startSec.d * endSec.d * n)

FiveWordsText == FullText(FiveWords)

\* C7: the video's currentTime is set to
\* max(startSec, startSec + i*timePerWord - 3*timePerWord), timePerWord =
\* (endSec - startSec)/n, n the number of whitespace tokens and i the located
\* index; in {10.0, 20.0, "one two three four five"} the selection "three"
\* gives 10.0 and the selection "five" gives 12.0.
C7_SeekFormula ==
    Sought =>
        /\ seekLog.totalWords = Len(Tokens)
        /\ video.currentTime =
               Formula(SoughtSegment.start, SoughtSegment.end,
                       Len(Tokens), seekLog.selectedStartWord)
        /\ (SoughtSegment.text = FiveWordsText
              /\ seekLog.selectedText = <<"t", "h", "r", "e", "e">>)
               => (seekLog.selectedStartWord = 2 /\ video.currentTime = Num(10))
        /\ (SoughtSegment.text = FiveWordsText
              /\ seekLog.selectedText = <<"f", "i", "v", "e">>)
               => (seekLog.selectedStartWord = 4 /\ video.currentTime = Num(12))

\* the selection "five" of the five-word segment has moved the video to 12.0
C7_Witness ==
    /\ Sought
    /\ SoughtSegment =
           [start |-> Num(10), end |-> Num(20), text |-> FiveWordsText]
    /\ seekLog.selectedText = <<"f", "i", "v", "e">>
    /\ video.currentTime = Num(12)

InRange == seekLog.selectedStartWord \in 0..(Len(Tokens) - 1)

\* C8 as stated: for every segment and every non-empty selection whose index
\* is within 0..n-1 the seek time lies within [startSec, endSec].
C8_WithinSegment ==
    (Sought /\ InRange) =>
        /\ NumLeq(SoughtSegment.start, seekLog.seekTime)
        /\ NumLeq(seekLog.seekTime, SoughtSegment.end)

\* C8 amended: the seek time is never below startSec, and for a segment with
\* endSec >= startSec it lies within [startSec, endSec].
C8_SeekRange ==
    (Sought /\ InRange) =>
        /\ NumLeq(SoughtSegment.start, seekLog.seekTime)
        /\ NumLeq(SoughtSegment.start, SoughtSegment.end)
               => NumLeq(seekLog.seekTime, SoughtSegment.end)

\* a seek strictly inside a segment, above its start and below its end
C8_Witness ==
    /\ Sought /\ InRange
    /\ NumLt(SoughtSegment.start, seekLog.seekTime)
    /\ NumLt(seekLog.seekTime, SoughtSegment.end)
    /\ video.currentTime = seekLog.seekTime

\* the window of k tokens beginning at index i (0-based), joined with single
\* spaces; the tokens end it where fewer than k are left
Window(i) ==
    Join([j \in 1..(IF Len(SelectionTokens) < Len(Tokens) - i
                    THEN Len(SelectionTokens) ELSE Len(Tokens) - i)
             |-> Tokens[i + j]], <<" ">>)

WindowMatches(i) ==
    \/ Includes(Window(i), seekLog.selectedText)
    \/ Includes(seekLog.selectedText, Window(i))

MatchingIndices == {i \in 0..(Len(Tokens) - 1) : WindowMatches(i)}

\* C9: the index used is the smallest index whose window of k tokens
\* contains the selection or is contained in it.
C9_SmallestIndex ==
    (Sought /\ MatchingIndices # {}) =>
        /\ seekLog.selectedStartWord \in MatchingIndices
        /\ \A i \in MatchingIndices : seekLog.selectedStartWord <= i

\* a selection found at a later index although a later window matches too
C9_Witness ==
    /\ Sought
    /\ seekLog.selectedStartWord >= 1
    /\ Cardinality(MatchingIndices) >= 2

\* C10: a selection that cannot be located gives index 0 and the video is
\* still sought, to startSec when endSec >= startSec.
C10_Fallback ==
    (Sought /\ MatchingIndices = {}) =>
        /\ seekLog.selectedStartWord = 0
        /\ video.currentTime = seekLog.seekTime
        /\ NumLeq(SoughtSegment.start, SoughtSegment.end)
               => video.currentTime = SoughtSegment.start

\* a selection inside the timestamp is not located; the video, which was
\* elsewhere, is at the segment's start
C10_Witness ==
    /\ Sought /\ MatchingIndices = {}
    /\ Len(Tokens) >= 2
    /\ seekLog.selectedStartWord = 0
    /\ video.currentTime = SoughtSegment.start
    /\ video.currentTime # Num(0)

----------------------------------------------------------------------------
(* Player controls: monitorForPlayer, injectButtons, skipVideo,            *)
(* addKeyboardShortcuts, src/content.js 99-104 and 1306-1407               *)

SKIP_SECONDS == 5

\* FlagAfterInjection when the flag is never set
FlagStaysFalse == FALSE

\* the value buttonsInjected gets once the buttons are in the controls
FlagAfterInjection == TRUE

\* injectButtons: returns when the flag is set, when the page has no video or
\* no play button; otherwise inserts the three buttons after the play button,
\* sets the flag and calls addKeyboardShortcuts, which registers one more
\* keydown listener on the document
injectButtons ==
    IF buttonsInjected \/ ~video.present \/ ~controls.playButton
    THEN UNCHANGED <<buttonsInjected, controls, insertions, keydownListeners>>
    ELSE /\ controls' = [controls EXCEPT
                             !.injected = @ + 1,
                             !.title = "Transcribe video with AI"]
         /\ insertions' = insertions + 1
         /\ buttonsInjected' = FlagAfterInjection
         /\ keydownListeners' = keydownListeners + 1

\* the callback monitorForPlayer gives to setInterval and to the
\* MutationObserver: if (!buttonsInjected) injectButtons().  An insertion is
\* a childList mutation under document.body, so it queues the observer.
MonitorCallback ==
    IF ~buttonsInjected
    THEN injectButtons
    ELSE UNCHANGED <<buttonsInjected, controls, insertions, keydownListeners>>

\* a tick of the 1-second interval
intervalTick ==
    /\ MonitorCallback
    /\ observerQueued' = (observerQueued \/ insertions' # insertions)
    /\ UNCHANGED <<transcriptVars, pageVars, runVars, video, duration, skipLog>>

\* the MutationObserver callback runs for the mutations recorded so far
observerCallback ==
    /\ observerQueued
    /\ MonitorCallback
    /\ observerQueued' = (insertions' # insertions)
    /\ UNCHANGED <<transcriptVars, pageVars, runVars, video, duration, skipLog>>

\* the host application renders a <video>; its metadata is not loaded yet
hostRendersVideo ==
    /\ ~video.present
    /\ video' = [present |-> TRUE, currentTime |-> Num(0)]
    /\ duration' = NaN
    /\ observerQueued' = TRUE
    /\ skipLog' = NoSkip
    /\ UNCHANGED <<transcriptVars, pageVars, runVars, buttonsInjected, controls,
                   insertions, keydownListeners>>

\* the host application renders the player controls with their play button
hostRendersControls ==
    /\ ~controls.playButton
    /\ controls' = [NoControls EXCEPT !.playButton = TRUE]
    /\ observerQueued' = TRUE
    /\ skipLog' = NoSkip
    /\ UNCHANGED <<transcriptVars, pageVars, runVars, video, duration, buttonsInjected,
                   insertions, keydownListeners>>

\* a route change of the single-page application: the player goes, and with
\* it everything inside its controls
routeChange ==
    /\ video.present \/ controls.playButton
    /\ video' = [present |-> FALSE, currentTime |-> Num(0)]
    /\ controls' = NoControls
    /\ duration' = NaN
    /\ observerQueued' = TRUE
    /\ skipLog' = NoSkip
    /\ UNCHANGED <<transcriptVars, pageVars, runVars, buttonsInjected, insertions,
                   keydownListeners>>

\* SkipTarget without the upper clamp at the duration
SkipTargetNoMin(currentTime, dur, seconds) ==
    MathMax(Num(0), NumAdd(currentTime, Num(seconds)))

\* Math.max(0, Math.min(video.duration, video.currentTime + seconds))
SkipTarget(currentTime, dur, seconds) ==
    MathMax(Num(0), MathMin(dur, NumAdd(currentTime, Num(seconds))))

\* skipVideo(seconds) on the video v of duration dur.  Without a video it
\* does nothing.  currentTime is a WebIDL double: the assignment of NaN
\* throws a TypeError and leaves currentTime as it was.
skipVideo(v, dur, seconds) ==
    IF ~v.present THEN v
    ELSE LET target == SkipTarget(v.currentTime, dur, seconds)
         IN IF IsNaN(target) THEN v ELSE [v EXCEPT !.currentTime = target]

\* ShortcutSeconds without the test of the event's target
ShortcutSecondsAnyTarget(e) ==
    IF e.key = "ArrowLeft" /\ e.shiftKey THEN -SKIP_SECONDS
    ELSE IF e.key = "ArrowRight" /\ e.shiftKey THEN SKIP_SECONDS
    ELSE 0

\* the seconds the document's keydown listener skips by for the event e,
\* 0 when it does not skip
ShortcutSeconds(e) ==
    IF e.target \in {"INPUT", "TEXTAREA"} THEN 0
    ELSE IF e.key = "ArrowLeft" /\ e.shiftKey THEN -SKIP_SECONDS
    ELSE IF e.key = "ArrowRight" /\ e.shiftKey THEN SKIP_SECONDS
    ELSE 0

RECURSIVE RunListeners(_, _, _, _)
\* every registered keydown listener handles the event, one after the other
RunListeners(v, dur, e, n) ==
    IF n = 0 THEN v
    ELSE LET s == ShortcutSeconds(e)
         IN RunListeners(IF s = 0 THEN v ELSE skipVideo(v, dur, s), dur, e, n - 1)

\* the video's metadata arrives: the duration becomes a number
Durations == {Num(3), Num(12)}

metadataLoads ==
    /\ video.present
    /\ IsNaN(duration)
    /\ \E d \in Durations : duration' = d
    /\ skipLog' = NoSkip
    /\ UNCHANGED <<transcriptVars, pageVars, runVars, video, buttonsInjected, controls,
                   insertions, keydownListeners, observerQueued>>

\* a click on a skip button, or Enter or Space while it has the focus: the
\* button's handler calls skipVideo(-SKIP_SECONDS) or skipVideo(SKIP_SECONDS)
skipButtonPress(seconds) ==
    /\ controls.injected > 0
    /\ video' = skipVideo(video, duration, seconds)
    /\ skipLog' = [kind |-> "button", seconds |-> seconds, before |-> video,
                   dur |-> duration]
    /\ UNCHANGED <<transcriptVars, pageVars, runVars, buttonsInjected, controls,
                   insertions, keydownListeners, observerQueued, duration>>

Keys == {"ArrowLeft", "ArrowRight", "Enter"}
Targets == {"BODY", "DIV", "INPUT", "TEXTAREA"}
KeyEvents == [key : Keys, shiftKey : BOOLEAN, target : Targets]

\* a keydown event reaches the document
keydown(e) ==
    /\ video' = RunListeners(video, duration, e, keydownListeners)
    /\ skipLog' = [kind |-> "keydown", event |-> e, before |-> video,
                   dur |-> duration, listeners |-> keydownListeners]
    /\ UNCHANGED <<transcriptVars, pageVars, runVars, buttonsInjected, controls,
                   insertions, keydownListeners, observerQueued, duration>>

PlayerNext ==
    \/ intervalTick
    \/ observerCallback
    \/ hostRendersVideo
    \/ hostRendersControls
    \/ routeChange
    \/ metadataLoads
    \/ \E seconds \in {-SKIP_SECONDS, SKIP_SECONDS} : skipButtonPress(seconds)
    \/ \E e \in KeyEvents : keydown(e)

PlayerSpec == Init /\ [][PlayerNext]_vars

\* setInterval keeps firing, and a queued observer callback gets to run
PlayerLiveSpec ==
    PlayerSpec /\ WF_vars(intervalTick) /\ WF_vars(observerCallback)

----------------------------------------------------------------------------
(* Properties of the player controls *)

\* the seconds the handler that ran last asked skipVideo for, 0 when it
\* asked for none
SkipAsked ==
    CASE skipLog.kind = "button" -> skipLog.seconds
      [] skipLog.kind = "keydown" /\ skipLog.listeners > 0
             /\ skipLog.event.target \notin {"INPUT", "TEXTAREA"}
             /\ skipLog.event.shiftKey
             /\ skipLog.event.key \in {"ArrowLeft", "ArrowRight"} ->
            IF skipLog.event.key = "ArrowLeft" THEN -5 ELSE 5
      [] OTHER -> 0

\* x clamped to the interval from 0 to hi, for numbers x and hi >= 0
Clamped(x, hi) ==
    IF NumLt(x, Num(0)) THEN Num(0) ELSE IF NumLt(hi, x) THEN hi ELSE x

\* 0 <= x <= hi, which no x satisfies when hi is NaN
WithinDuration(x, hi) ==
    /\ ~IsNaN(hi)
    /\ NumLeq(Num(0), x)
    /\ NumLeq(x, hi)

\* C15 as stated: a skip by s = +5 or -5 leaves currentTime at
\* max(0, min(duration, currentTime + s)), a time within [0, duration]; on a
\* page without a video it changes nothing.
C15_SkipClamped ==
    SkipAsked # 0 =>
        IF skipLog.before.present
        THEN /\ video.currentTime
                    = Clamped(NumAdd(skipLog.before.currentTime, Num(SkipAsked)),
                              skipLog.dur)
             /\ WithinDuration(video.currentTime, skipLog.dur)
        ELSE video = skipLog.before

\* C15 with the duration taken into account: the clamped time when the
\* video's duration is a number, no change while the duration is NaN, no
\* change without a video.
C15_SkipClampedKnownDuration ==
    SkipAsked # 0 =>
        IF skipLog.before.present /\ ~IsNaN(skipLog.dur)
        THEN /\ video.currentTime
                    = Clamped(NumAdd(skipLog.before.currentTime, Num(SkipAsked)),
                              skipLog.dur)
             /\ WithinDuration(video.currentTime, skipLog.dur)
        ELSE video = skipLog.before

\* a skip forward that the duration cuts short
C15_Witness ==
    /\ SkipAsked = 5
    /\ skipLog.before.present
    /\ ~IsNaN(skipLog.dur)
    /\ NumLt(skipLog.dur, NumAdd(skipLog.before.currentTime, Num(5)))
    /\ NumLt(skipLog.before.currentTime, skipLog.dur)
    /\ video.currentTime = skipLog.dur

\* what the claimed shortcuts make of the video for the event e
ShortcutEffect(e, v, dur) ==
    IF e.target \in {"INPUT", "TEXTAREA"} \/ ~e.shiftKey THEN v
    ELSE IF e.key = "ArrowLeft" THEN skipVideo(v, dur, -5)
    ELSE IF e.key = "ArrowRight" THEN skipVideo(v, dur, 5)
    ELSE v

\* C16 as stated: Shift+ArrowLeft skips backward 5 seconds, Shift+ArrowRight
\* forward 5 seconds; without Shift, or with the event's target an INPUT or
\* TEXTAREA, a keydown skips nothing.
C16_Shortcuts ==
    skipLog.kind = "keydown" =>
        video = ShortcutEffect(skipLog.event, skipLog.before, skipLog.dur)

\* C16 for the listener's lifetime: the shortcuts act as stated once
\* injectButtons has registered the listener, and no key skips before that.
C16_ShortcutsOnceInjected ==
    skipLog.kind = "keydown" =>
        IF skipLog.listeners = 0 THEN video = skipLog.before
        ELSE video = ShortcutEffect(skipLog.event, skipLog.before, skipLog.dur)

\* Shift+ArrowLeft outside a text field has taken the video 5 seconds back
C16_Witness ==
    /\ skipLog.kind = "keydown"
    /\ skipLog.listeners = 1
    /\ skipLog.event = [key |-> "ArrowLeft", shiftKey |-> TRUE, target |-> "BODY"]
    /\ skipLog.before.present
    /\ video.currentTime = NumSub(skipLog.before.currentTime, Num(5))

\* C17: whatever the order of interval ticks and observer callbacks, the
\* buttons are inserted at most once, the keydown listener is registered at
\* most once, and buttonsInjected is true exactly when the buttons have been
\* inserted.
C17_SingleInjection ==
    /\ insertions <= 1
    /\ controls.injected <= 1
    /\ keydownListeners <= 1
    /\ buttonsInjected <=> insertions = 1

\* after a route change a new player without the buttons is on the page, the
\* observer has run for it, and nothing was inserted a second time
C17_Witness ==
    /\ insertions = 1
    /\ buttonsInjected
    /\ video.present
    /\ controls.playButton
    /\ controls.injected = 0
    /\ ~observerQueued

PlayerPresent == video.present /\ controls.playButton

\* C18 as stated: whenever a video and a play button are present, the skip
\* buttons eventually stand next to that play button (unless the player goes
\* first), also for a player rendered after a route change.
C18_ButtonsAppear ==
    PlayerPresent ~> (controls.injected > 0 \/ ~PlayerPresent)

----------------------------------------------------------------------------
(* Runs of handleTranscribe against the vendor: handleTranscribe 1206-1266, *)
(* getApiKey 109-130, getVideoSource 135-154, transcribeVideo 335-404,      *)
(* uploadVideoToAssemblyAI 159-189, createTranscription 194-222,            *)
(* pollTranscription 227-279                                                *)

MaxAttempts == 2
MaxPolls == 2

\* setTimeout(resolve, 3000)
PollDelay == 3000

Min(a, b) == IF a < b THEN a ELSE b

\* a run right after its synchronous start: it awaits getApiKey()
NewRun ==
    [pc |-> "apiKey", inflight |-> {}, polls |-> 0, last |-> "none",
     timer |-> 0, apiKey |-> Undefined, error |-> "none", alerts |-> 0]

\* NextStep with the job created straight from the fetched video
NextStepSkipsUpload(kind) ==
    CASE kind = "fetch" -> "create"
      [] kind = "upload" -> "create"
      [] kind = "create" -> "poll"

\* the request transcribeVideo issues once the response to `kind` is there
NextStep(kind) ==
    CASE kind = "fetch" -> "upload"
      [] kind = "upload" -> "create"
      [] kind = "create" -> "poll"

\* a request goes out; pollCount is only logged, it is kept up to MaxPolls
Issue(run, kind) ==
    [run EXCEPT !.pc = kind,
                !.inflight = @ \cup {kind},
                !.polls = IF kind = "poll" THEN Min(@ + 1, MaxPolls) ELSE @,
                !.timer = 0]

\* the response to the request `kind` has arrived
Settle(run, kind) == [run EXCEPT !.inflight = @ \ {kind}]

\* what a poll can come back with: the status of an OK response, a non-OK
\* HTTP response, or a fetch that rejects
PollStatuses == {"completed", "error", "queued", "processing", "unknown"}
PollOutcomes == PollStatuses \cup {"notOk", "rejected"}

\* PollDecision that gives up on a status it does not know
PollDecisionStrict(outcome) ==
    CASE outcome = "completed" -> "return"
      [] outcome \in {"queued", "processing"} -> "wait"
      [] OTHER -> "throw"

\* pollTranscription's loop body for one response
PollDecision(outcome) ==
    CASE outcome = "completed" -> "return"
      [] outcome \in {"error", "notOk", "rejected"} -> "throw"
      [] OTHER -> "wait"

\* handleTranscribe's pointerEvents on #betterframe-transcribe-btn, when the
\* button is there
ButtonPointerEvents(c, value) ==
    IF c.injected > 0 THEN [c EXCEPT !.pointerEvents = value] ELSE c

\* handleTranscribe's title on the button, when the button is there
ButtonTitle(c, value) ==
    IF c.injected > 0 THEN [c EXCEPT !.title = value] ELSE c

DisableButton(c) ==
    ButtonTitle(ButtonPointerEvents(c, "none"), "Transcribing...")

EnableButton(c) ==
    ButtonTitle(ButtonPointerEvents(c, "auto"), "Transcribe video with AI")

\* the synchronous start of handleTranscribe: the button stops taking
\* pointer events, the loading message shows, and getApiKey() is awaited
StartTranscribe ==
    /\ Len(attempts) < MaxAttempts
    /\ controls.injected > 0
    /\ attempts' = Append(attempts, NewRun)
    /\ controls' = DisableButton(controls)
    /\ loading' = showLoadingMessage(loading)
    /\ UNCHANGED <<transcriptVars, video, body, buttonsInjected, insertions,
                   keydownListeners, observerQueued, duration, skipLog,
                   selectLog, storage, popup, playerContainer, editors,
                   commentLog, commentTimers>>

\* a click on the transcribe button; pointer-events: none keeps clicks away
transcribeButtonClick ==
    /\ controls.pointerEvents = "auto"
    /\ StartTranscribe

\* Enter or Space while the transcribe button has the focus (tabindex 0):
\* createButton's keydown listener calls the same handler
transcribeButtonKeydown == StartTranscribe

\* the messages of the errors handleTranscribe catches
NoKeyMessage == "No API key found"
NoVideoMessage == "Video element not found"

\* Caught without the alert
CaughtSilently(run, message) ==
    [run EXCEPT !.pc = "failed", !.inflight = {}, !.error = message]

\* the run whose error the catch block of handleTranscribe got: the user is
\* alerted with the error's message
Caught(run, message) ==
    [run EXCEPT !.pc = "failed", !.inflight = {}, !.error = message,
                !.alerts = @ + 1]

\* the catch block of handleTranscribe, with run a as the step that threw
\* leaves it: the loading message hides, the alert, the button is enabled
Fail(a, run, message) ==
    /\ attempts' = [attempts EXCEPT ![a] = Caught(run, message)]
    /\ loading' = hideLoadingMessage(loading)
    /\ controls' = EnableButton(controls)
    /\ UNCHANGED <<transcriptVars, video, body, buttonsInjected, insertions,
                   keydownListeners, observerQueued, duration, skipLog,
                   selectLog, storage, popup, playerContainer, editors,
                   commentLog, commentTimers>>

\* chrome.storage answers getApiKey's get(['assemblyaiApiKey']): the promise
\* rejects on lastError and on a missing or empty value.  With a key,
\* getVideoSource reads the page's video (it throws without one) and
\* transcribeVideo fetches it.
apiKeyCallback(a, lastError) ==
    /\ attempts[a].pc = "apiKey"
    /\ CASE lastError -> Fail(a, attempts[a], "lastError")
         [] ~lastError /\ ~Truthy(storage[ContentKeyName]) ->
                Fail(a, attempts[a], NoKeyMessage)
         [] OTHER ->
                LET run == [attempts[a] EXCEPT
                               !.apiKey = storage[ContentKeyName]]
                IN  IF video.present
                    THEN /\ attempts' = [attempts EXCEPT
                                            ![a] = Issue(run, "fetch")]
                         /\ loading' = showLoadingMessage(loading)
                         /\ UNCHANGED <<transcriptVars, video, body,
                                        playerVars, selectLog, storage, popup,
                                        playerContainer, editors, commentLog,
                                        commentTimers>>
                    ELSE Fail(a, run, NoVideoMessage)

\* the video fetch, the upload or the job creation comes back: with an OK
\* response the next request goes out, otherwise the run fails
requestSettles(a, ok) ==
    /\ attempts[a].pc \in {"fetch", "upload", "create"}
    /\ attempts[a].pc \in attempts[a].inflight
    /\ IF ok
       THEN /\ attempts' =
                  [attempts EXCEPT
                      ![a] = Issue(Settle(@, @.pc), NextStep(@.pc))]
            /\ UNCHANGED <<transcriptVars, pageVars, video, body, playerVars>>
       ELSE Fail(a, attempts[a], attempts[a].pc)

\* pollTranscription returns data: transcribeVideo converts it, and
\* handleTranscribe goes on to createTranscriptUI, shows the last loading
\* message, sets the timer that hides it and enables the button.  No other
\* task runs in between.
RunCompletes(a, data) ==
    /\ attempts' = [attempts EXCEPT
                       ![a] = [Settle(@, "poll") EXCEPT
                                  !.pc = "done", !.last = "completed"]]
    /\ result' = data
    /\ transcript' = transcribeVideo(data)
    /\ content' = TranscriptContent(transcript')
    /\ listening' = video.present
    /\ menu' = IF video.present THEN NoMenu ELSE menu
    /\ seekLog' = NoSeek
    /\ selectLog' = NoSelect
    /\ commentLog' = NoComment
    /\ body' = TranscriptUI(body, a)
    /\ playerContainer' = adjustPageLayout(playerContainer, TRUE)
    /\ loading' = HideLater(showLoadingMessage(loading))
    /\ controls' = EnableButton(controls)
    /\ UNCHANGED <<pc, video, buttonsInjected, insertions, keydownListeners,
                   observerQueued, duration, skipLog, storage, popup, editors,
                   commentTimers>>

\* the 2-second timer a completed run has set fires: hideLoadingMessage
hideLoadingTimerFires ==
    /\ loading.hideTimers > 0
    /\ loading' = [hideLoadingMessage(loading) EXCEPT !.hideTimers = @ - 1]
    /\ UNCHANGED <<transcriptVars, runVars, playerVars, video, selectLog,
                   storage, popup, playerContainer, editors, commentLog,
                   commentTimers>>

\* chrome.storage.sync gets a value from outside these scripts: the browser
\* syncs what another installation has stored, or a developer sets it
storageSet(name, value) ==
    /\ storage[name] # value
    /\ storage' = [storage EXCEPT ![name] = value]
    /\ UNCHANGED <<transcriptVars, runVars, playerVars, video, selectLog,
                   loading, popup, playerContainer, editors, commentLog,
                   commentTimers>>

\* the results the vendor completes the runs with
RunResults ==
    {Completed(<<Word(<<"a">>, 200, 1200)>>),
     [text |-> Str(TextOnly), words |-> Arr(<<>>)]}

\* the response to a status poll
pollSettles(a, outcome) ==
    /\ attempts[a].pc = "poll"
    /\ "poll" \in attempts[a].inflight
    /\ CASE PollDecision(outcome) = "return" ->
                \E data \in RunResults : RunCompletes(a, data)
         [] PollDecision(outcome) = "throw" ->
                Fail(a, [attempts[a] EXCEPT !.last = outcome], "poll")
         [] OTHER ->
                /\ attempts' =
                       [attempts EXCEPT
                           ![a] = [Settle(@, "poll") EXCEPT
                                      !.pc = "wait", !.last = outcome,
                                      !.timer = PollDelay]]
                /\ UNCHANGED <<transcriptVars, pageVars, video, body, playerVars>>

\* the 3-second timer of the loop fires: the next poll goes out
pollTimerFires(a) ==
    /\ attempts[a].pc = "wait"
    /\ attempts' = [attempts EXCEPT ![a] = Issue(@, "poll")]
    /\ UNCHANGED <<transcriptVars, pageVars, video, body, playerVars>>

TranscribeNext ==
    \/ hostRendersControls
    \/ intervalTick
    \/ routeChange
    \/ transcribeButtonClick
    \/ transcribeButtonKeydown
    \/ storageSet(ContentKeyName, Str(<<"k">>))
    \/ \E a \in 1..Len(attempts) :
           \E lastError \in BOOLEAN : apiKeyCallback(a, lastError)
    \/ \E a \in 1..Len(attempts) : \E ok \in BOOLEAN : requestSettles(a, ok)
    \/ \E a \in 1..Len(attempts) : \E outcome \in PollOutcomes : pollSettles(a, outcome)
    \/ \E a \in 1..Len(attempts) : pollTimerFires(a)

TranscribeSpec == Init /\ [][TranscribeNext]_vars

----------------------------------------------------------------------------
(* Properties of the runs *)

Runs == 1..Len(attempts)
Sidebars == {k \in 1..Len(body) : body[k].id = SidebarId}
Toggles == {k \in 1..Len(body) : body[k].id = ToggleId}

\* the document holds at most one sidebar and at most one toggle button
AtMostOneTranscriptUI ==
    /\ Cardinality(Sidebars) <= 1
    /\ Cardinality(Toggles) <= 1

\* no transcript of an earlier request is left once a newer one was made
PreviousDiscarded ==
    \A k \in 1..Len(body) : body[k].owner = Len(attempts)

\* C11 as stated: after any sequence of transcription requests the document
\* holds at most one sidebar and one toggle button, and the transcript of a
\* request is gone from the moment a newer request has been made.
C11_SingleTranscript == AtMostOneTranscriptUI /\ PreviousDiscarded

\* C12 as stated: once all of two or more requests have completed, the
\* sidebar shows the transcript of the request that was started last,
\* whatever the order in which the vendor completed them.
C12_LatestRequestWins ==
    (Len(attempts) >= 2 /\ \A a \in Runs : attempts[a].pc = "done") =>
        \A k \in Sidebars : body[k].owner = Len(attempts)

NonTerminal == {"queued", "processing", "unknown"}
PollFailures == {"error", "notOk", "rejected"}

\* C13: pollTranscription returns only on status 'completed', throws only on
\* status 'error' or on an HTTP failure, and on every other status waits
\* 3000 ms and polls again, however many polls there have been.
C13_PollingUntilTerminal ==
    /\ [](\A a \in Runs :
            /\ attempts[a].pc = "done" => attempts[a].last = "completed"
            /\ (attempts[a].pc = "failed" /\ attempts[a].last # "none")
                   => attempts[a].last \in PollFailures
            /\ attempts[a].pc = "wait" =>
                   /\ attempts[a].last \in NonTerminal
                   /\ attempts[a].timer = 3000
                   /\ attempts[a].inflight = {})
    /\ [][\A a \in Runs :
            /\ (attempts[a].pc = "poll" /\ attempts'[a] # attempts[a]) =>
                   \/ attempts'[a].pc = "done" /\ attempts'[a].last = "completed"
                   \/ attempts'[a].pc = "failed"
                          /\ attempts'[a].last \in PollFailures
                   \/ attempts'[a].pc = "wait"
                          /\ attempts'[a].last \in NonTerminal
            /\ (attempts[a].pc = "wait" /\ attempts'[a] # attempts[a]) =>
                   /\ attempts'[a].pc = "poll"
                   /\ attempts'[a].inflight = {"poll"}]_vars

\* a run still waiting after MaxPolls polls, the last one answered with a
\* status the code does not know
C13_Witness ==
    \E a \in Runs :
        /\ attempts[a].pc = "wait"
        /\ attempts[a].polls = MaxPolls
        /\ attempts[a].last = "unknown"

\* the request kind `kind` may go out in the step from run to run'
InOrder(kind, run) ==
    CASE kind = "fetch" -> run.pc = "apiKey" /\ run.inflight = {}
      [] kind = "upload" -> run.inflight = {"fetch"}
      [] kind = "create" -> run.inflight = {"upload"}
      [] kind = "poll" ->
            \/ run.inflight = {"create"}
            \/ run.pc = "wait" /\ run.inflight = {}

\* C14: a run issues video fetch, upload, job creation and status polls in
\* that order, each only when the response to the one before is there (never
\* two outstanding), and a failed run issues nothing more and shows no
\* transcript.
C14_SequentialPipeline ==
    /\ [](\A a \in Runs :
            /\ Cardinality(attempts[a].inflight) <= 1
            /\ attempts[a].pc = "failed" =>
                   /\ attempts[a].inflight = {}
                   /\ \A k \in 1..Len(body) : body[k].owner # a
            /\ (\E k \in 1..Len(body) : body[k].owner = a)
                   => attempts[a].pc = "done")
    /\ [][\A a \in Runs :
            /\ \A kind \in attempts'[a].inflight \ attempts[a].inflight :
                   /\ InOrder(kind, attempts[a])
                   /\ attempts'[a].inflight = {kind}
            /\ attempts[a].pc = "failed" => attempts'[a] = attempts[a]]_vars

\* one run has failed at its last poll while another one has shown its
\* transcript
C14_Witness ==
    \E a, b \in Runs :
        /\ attempts[a].pc = "failed"
        /\ attempts[a].polls = MaxPolls
        /\ attempts[b].pc = "done"
        /\ \E k \in Sidebars : body[k].owner = b

----------------------------------------------------------------------------
(* The gap threshold of the segmenter and the word count of the estimator *)

\* no word but possibly the last ends in '.', '!' or '?'
Unpunctuated(words) ==
    \A i \in 1..(Len(words) - 1) :
        \/ words[i].text = <<>>
        \/ words[i].text[Len(words[i].text)] \notin {".", "!", "?"}

\* the words followed by a gap of more than 1000 ms, and the last word
GapBreaks(words) ==
    {i \in 1..(Len(words) - 1) : words[i + 1].start - words[i].end > 1000}
        \cup {Len(words)}

HelloWorldApart ==
    <<[start |-> Num(0), end |-> Rat(4, 10),
       text |-> <<"H", "e", "l", "l", "o">>],
      [start |-> Num(2), end |-> Rat(24, 10),
       text |-> <<"w", "o", "r", "l", "d">>]>>

HelloWorldTogether ==
    <<[start |-> Num(0), end |-> Rat(8, 10),
       text |-> <<"H", "e", "l", "l", "o", " ", "w", "o", "r", "l", "d">>]>>

\* C19 as stated: where no terminal punctuation decides, two consecutive
\* words lie in different segments when the gap between them is more than
\* 1000 ms and in the same segment when it is 1000 ms or less, negative gaps
\* included; the two Hello/world inputs give their segments.
C19_StrictGap ==
    (Converted /\ HasWords /\ Unpunctuated(InputWords)) =>
        /\ TimesFollow(InputWords, Segments, GapBreaks(InputWords))
        /\ (InputWords = GapWords => Segments = HelloWorldApart)
        /\ (InputWords = NoBreakWords => Segments = HelloWorldTogether)

\* the number of words of a text: its maximal runs of non-space characters
WordCount(text) ==
    Cardinality({k \in 1..Len(text) :
                    /\ ~IsSpace(text[k])
                    /\ (k = 1 \/ IsSpace(text[k - 1]))})

\* C20 as stated: n is the number of whitespace-separated words of the
\* segment's text, and for a segment without words (n = 0) the estimator
\* seeks to startSec.
C20_WordCountGuard ==
    Sought =>
        /\ seekLog.totalWords = WordCount(SoughtSegment.text)
        /\ WordCount(SoughtSegment.text) = 0
               => video.currentTime = SoughtSegment.start

----------------------------------------------------------------------------
(* Selections of white space: handleTextSelection 680-709 and              *)
(* seekToEstimatedTime 1001-1070                                           *)

WhitespaceOnly(s) == s # <<>> /\ \A k \in 1..Len(s) : IsSpace(s[k])

\* the selection handleTextSelection handled last lies in a segment element
\* and is not the empty string
SelectedInSegment ==
    selectLog.selectedText # <<>> /\ selectLog.container # 0

\* C21: handleTextSelection leaves the action menu open, for the selection
\* and the segment it was called with, exactly when the selection has one
\* character or more and lies in a segment element, white space or not; and
\* a seek for a selection of nothing but white space ends with the video at
\* a seek time that is a number.
C21_WhitespaceSelections ==
    /\ selectLog.kind = "selection" =>
           /\ menu.present <=> SelectedInSegment
           /\ menu.present =>
                  /\ menu.selectedText = selectLog.selectedText
                  /\ menu.segment = selectLog.container
    /\ (Sought /\ WhitespaceOnly(seekLog.selectedText)) =>
           /\ ~IsNaN(seekLog.seekTime)
           /\ video.currentTime = seekLog.seekTime

\* a menu action has sought for a selection of one blank, which moved the
\* video
C21_Witness ==
    /\ Sought
    /\ WhitespaceOnly(seekLog.selectedText)
    /\ video.currentTime = seekLog.seekTime
    /\ video.currentTime # Num(0)

----------------------------------------------------------------------------
(* The transcribe button while runs are in flight: handleTranscribe        *)
(* 1206-1266, createButton 1271-1301                                       *)

\* the runs of handleTranscribe that have neither completed nor failed
InFlight == {a \in Runs : attempts[a].pc \notin {"done", "failed"}}

ButtonThere == controls.injected > 0

ButtonDisabled ==
    controls.pointerEvents = "none" /\ controls.title = "Transcribing..."

ButtonEnabled ==
    controls.pointerEvents = "auto" /\ controls.title # "Transcribing..."

\* C22: at most one run of handleTranscribe is in flight at any time, by
\* click or by Enter/Space; and the transcribe button, while it is in the
\* controls, is disabled (pointer-events none, title 'Transcribing...') as
\* long as a run is in flight and enabled when none is.
C22_ButtonGuard ==
    /\ Cardinality(InFlight) <= 1
    /\ ButtonThere => IF InFlight # {} THEN ButtonDisabled ELSE ButtonEnabled

----------------------------------------------------------------------------
(* A run that fails: the catch block of handleTranscribe, 1248-1264        *)

\* run a fails in this step
Fails(a) == attempts[a].pc # "failed" /\ attempts'[a].pc = "failed"

\* the alerts of a run: one once it has failed, none before and none for a
\* run that completes
AlertedOnce ==
    \A a \in Runs :
        attempts[a].alerts = IF attempts[a].pc = "failed" THEN 1 ELSE 0

\* C23: the step in which a run fails, whichever await threw, leaves the
\* sidebar and the toggle button in the document as they were, with the
\* transcript they show, and leaves the loading message hidden; the run
\* alerts the user once, in that step.
C23_FailureKeepsTranscript ==
    /\ []AlertedOnce
    /\ [][\A a \in Runs :
             Fails(a) => /\ body' = body
                         /\ content' = content
                         /\ transcript' = transcript
                         /\ loading'.display = "none"
                         /\ attempts'[a].alerts = attempts[a].alerts + 1]_vars

\* the first run has completed and its sidebar is in the document; the
\* second run has failed and the loading message is hidden
C23_Witness ==
    /\ Len(attempts) = 2
    /\ attempts[1].pc = "done"
    /\ attempts[2].pc = "failed"
    /\ attempts[2].alerts = 1
    /\ \E k \in Sidebars : body[k].owner = 1
    /\ \E k \in Toggles : body[k].owner = 1
    /\ loading.display = "none"

----------------------------------------------------------------------------
(* The popup: src/popup.js.  It stores the key the user types; the content *)
(* script's getApiKey (src/content.js 109-130) reads chrome.storage.sync   *)
(* when a run of handleTranscribe starts.                                  *)

MaxPending == 2

RECURSIVE TrimStart(_)
TrimStart(s) == IF s # <<>> /\ IsSpace(s[1]) THEN TrimStart(Tail(s)) ELSE s

RECURSIVE TrimEnd(_)
TrimEnd(s) ==
    IF s # <<>> /\ IsSpace(s[Len(s)])
    THEN TrimEnd(SubSeq(s, 1, Len(s) - 1))
    ELSE s

\* String.prototype.trim
Trim(s) == TrimEnd(TrimStart(s))

\* String.prototype.startsWith
StartsWith(s, prefix) ==
    Len(s) >= Len(prefix) /\ SubSeq(s, 1, Len(prefix)) = prefix

popupUnchanged ==
    UNCHANGED <<transcriptVars, runVars, playerVars, video, selectLog,
                loading, playerContainer, editors, commentLog, commentTimers>>

\* the user opens the popup: the script runs loadApiKey
popupOpens ==
    /\ ~popup.open
    /\ popup' = [ClosedPopup EXCEPT !.open = TRUE, !.loadPending = TRUE]
    /\ UNCHANGED storage
    /\ popupUnchanged

\* chrome.storage answers loadApiKey's get(['openaiApiKey'])
loadApiKey(lastError) ==
    /\ popup.loadPending
    /\ popup' = [popup EXCEPT
                    !.loadPending = FALSE,
                    !.value = IF ~lastError /\ Truthy(storage[PopupKeyName])
                              THEN storage[PopupKeyName].v
                              ELSE @]
    /\ UNCHANGED storage
    /\ popupUnchanged

\* the user edits the input
userTypes(text) ==
    /\ popup.open
    /\ popup.value # text
    /\ popup' = [popup EXCEPT !.value = text]
    /\ UNCHANGED storage
    /\ popupUnchanged

\* saveApiKey up to the call of chrome.storage.sync.set: both messages
\* hide; an empty key and a key without the prefix sk- get an error
\* message, any other key goes to the storage.  At most MaxPending
\* callbacks and timers of the popup are pending.
saveApiKey ==
    LET apiKey == Trim(popup.value)
        hidden == [popup EXCEPT !.success = FALSE, !.error = "none"]
    IN  /\ popup.open
        /\ Len(popup.saving) + popup.hideTimers < MaxPending
        /\ popup' =
               CASE apiKey = <<>> -> [hidden EXCEPT !.error = "empty"]
                 [] apiKey # <<>> /\ ~StartsWith(apiKey, <<"s", "k", "-">>) ->
                        [hidden EXCEPT !.error = "format"]
                 [] OTHER ->
                        [hidden EXCEPT !.disabled = TRUE,
                                       !.saving = Append(@, apiKey)]
        /\ UNCHANGED storage
        /\ popupUnchanged

\* a click on the save button, which a disabled button does not take
saveButtonClick ==
    /\ ~popup.disabled
    /\ saveApiKey

\* Enter in the input
inputKeypress == saveApiKey

\* chrome.storage answers the oldest set({ openaiApiKey: apiKey })
saveCallback(lastError) ==
    /\ popup.saving # <<>>
    /\ IF lastError
       THEN /\ popup' = [popup EXCEPT !.saving = Tail(@), !.error = "failed",
                                      !.disabled = FALSE]
            /\ UNCHANGED storage
       ELSE /\ popup' = [popup EXCEPT !.saving = Tail(@), !.success = TRUE,
                                      !.hideTimers = @ + 1,
                                      !.disabled = FALSE]
            /\ storage' = [storage EXCEPT
                              ![PopupKeyName] = Str(Head(popup.saving))]
    /\ popupUnchanged

\* the 3-second timer of the success message fires
successTimerFires ==
    /\ popup.hideTimers > 0
    /\ popup' = [popup EXCEPT !.success = FALSE, !.hideTimers = @ - 1]
    /\ UNCHANGED storage
    /\ popupUnchanged

\* the user closes the popup, here once chrome.storage has answered its
\* calls; its timers go with the page
popupCloses ==
    /\ popup.open
    /\ popup.saving = <<>>
    /\ ~popup.loadPending
    /\ popup' = ClosedPopup
    /\ UNCHANGED storage
    /\ popupUnchanged

\* what the user types: nothing, a key with blanks around it, a key, and a
\* text without the prefix
PopupInputs ==
    {<<>>, <<" ", "s", "k", "-", "a", " ">>, <<"s", "k", "-", "b">>,
     <<"a", "b">>}

KeyNext ==
    \/ popupOpens
    \/ \E lastError \in BOOLEAN : loadApiKey(lastError)
    \/ \E text \in PopupInputs : userTypes(text)
    \/ saveButtonClick
    \/ inputKeypress
    \/ \E lastError \in BOOLEAN : saveCallback(lastError)
    \/ successTimerFires
    \/ popupCloses
    \/ hostRendersControls
    \/ intervalTick
    \/ transcribeButtonClick
    \/ transcribeButtonKeydown
    \/ \E a \in 1..Len(attempts) :
           \E lastError \in BOOLEAN : apiKeyCallback(a, lastError)

KeySpec == Init /\ [][KeyNext]_vars

\* chrome.storage answers the getApiKey of run a in this step
Answered(a) == attempts[a].pc = "apiKey" /\ attempts'[a].pc # "apiKey"

\* the popup has stored a key: nothing else writes under its key
PopupSaved == storage[PopupKeyName].t = "string"

\* C24: when chrome.storage answers a run's getApiKey without an error and
\* the popup has stored a key K, getApiKey resolves to K and the run goes on
\* with K; when the popup has stored no key, the run fails with 'No API key
\* found' and has no request in flight.
C24_KeyRoundTrip ==
    [][\A a \in Runs :
          (Answered(a) /\ attempts'[a].error # "lastError") =>
              IF PopupSaved
              THEN attempts'[a].apiKey = storage[PopupKeyName]
              ELSE /\ attempts'[a].pc = "failed"
                   /\ attempts'[a].error = NoKeyMessage
                   /\ attempts'[a].inflight = {}]_vars

----------------------------------------------------------------------------
(* The element addToCommentBox writes into: src/content.js 841-867         *)

Element(tag, placeholder, testid, role, contenteditable, visible) ==
    [tag |-> tag, placeholder |-> placeholder, testid |-> testid,
     role |-> role, contenteditable |-> contenteditable,
     visible |-> visible, written |-> FALSE]

EditableTrue == Str(<<"t", "r", "u", "e">>)

\* the elements the host page renders: textareas with a placeholder
\* 'Comment', a placeholder 'add', a data-testid 'comment' and without
\* attributes, an editable text box and an editable element, each of them
\* visible or not
EditorKinds ==
    UNION {{Element("TEXTAREA", Str(<<"C", "o", "m", "m", "e", "n", "t">>),
                    Undefined, Undefined, Undefined, v),
            Element("TEXTAREA", Str(<<"a", "d", "d">>),
                    Undefined, Undefined, Undefined, v),
            Element("TEXTAREA", Undefined,
                    Str(<<"c", "o", "m", "m", "e", "n", "t">>),
                    Undefined, Undefined, v),
            Element("TEXTAREA", Undefined, Undefined, Undefined, Undefined, v),
            Element("DIV", Undefined, Undefined,
                    Str(<<"t", "e", "x", "t", "b", "o", "x">>),
                    EditableTrue, v),
            Element("DIV", Undefined, Undefined, Undefined, EditableTrue, v)} :
           v \in BOOLEAN}

\* the result the comment box is explored with: one segment, "a"
CommentResults == {Completed(<<Word(<<"a">>, 200, 1200)>>)}

\* a selection of the whole text of a segment
SelectSegmentText ==
    \E k \in SegmentElements : handleTextSelection(content[k].text, k)

CommentNext ==
    \/ handleTranscribe
    \/ VendorCompletes(CommentResults)
    \/ createTranscriptUI
    \/ SelectSegmentText
    \/ \E label \in MenuLabels : menuButtonClick(label)
    \/ \E k \in 1..Len(editors) : commentTimerFires(k)
    \/ \E e \in EditorKinds : hostRendersEditor(e)

CommentSpec == Init /\ [][CommentNext]_vars

\* the n-th selector yields a visible element
YieldsVisible(doc, n) ==
    querySelector(doc, n) # 0 /\ doc[querySelector(doc, n)].visible

VisibleSelectors(doc) == {n \in 1..SelectorCount : YieldsVisible(doc, n)}

\* the element of the first selector in list order that yields a visible one
FirstVisible(doc) ==
    querySelector(doc, CHOOSE n \in VisibleSelectors(doc) :
                           \A m \in VisibleSelectors(doc) : n <= m)

\* C25: addToCommentBox alerts and takes no element when no selector yields
\* a visible element, and otherwise takes, without an alert, the element of
\* the first selector in list order that yields a visible one; the elements
\* a comment is or will be written into are visible.
C25_VisibleCommentBoxOnly ==
    /\ commentLog.kind = "call" =>
           IF VisibleSelectors(editors) = {}
           THEN commentLog.alerted /\ commentLog.target = 0
           ELSE ~commentLog.alerted
                /\ commentLog.target = FirstVisible(editors)
    /\ \A k \in commentTimers : editors[k].visible
    /\ \A k \in 1..Len(editors) : editors[k].written => editors[k].visible

----------------------------------------------------------------------------
(* The sidebar toggle: toggleTranscriptSidebar 554-576, adjustPageLayout   *)
(* 516-549, createTranscriptUI 480-498                                     *)

\* document.getElementById over the elements of body: the first element
\* with the id
HasId(elements, id) == \E k \in 1..Len(elements) : elements[k].id = id

GetById(elements, id) ==
    elements[CHOOSE k \in 1..Len(elements) :
                 /\ elements[k].id = id
                 /\ \A j \in 1..(k - 1) : elements[j].id # id]

\* toggleTranscriptSidebar on the pair of document.body's elements and the
\* player container: with a sidebar, its class 'hidden' flips, the layout
\* is adjusted for the new visibility, and the toggle button, when there is
\* one, gets the title for it
Toggled(ui) ==
    IF ~HasId(ui.body, SidebarId) THEN ui
    ELSE LET isHidden == GetById(ui.body, SidebarId).hidden
             Flip(e) ==
                 CASE e.id = SidebarId -> [e EXCEPT !.hidden = ~isHidden]
                   [] e.id = ToggleId ->
                          [e EXCEPT !.title = IF ~isHidden
                                              THEN "Show Transcript"
                                              ELSE "Hide Transcript"]
                   [] OTHER -> e
         IN  [body |-> [k \in 1..Len(ui.body) |-> Flip(ui.body[k])],
              container |-> adjustPageLayout(ui.container, isHidden)]

UI == [body |-> body, container |-> playerContainer]

toggleTranscriptSidebar ==
    /\ body' = Toggled(UI).body
    /\ playerContainer' = Toggled(UI).container
    /\ UNCHANGED <<transcriptVars, attempts, playerVars, video, selectLog,
                   loading, storage, popup, editors, commentLog,
                   commentTimers>>

\* a click on the close button in the header of the sidebar, which is on
\* the screen while the sidebar is not hidden
closeButtonClick ==
    /\ HasId(body, SidebarId)
    /\ ~GetById(body, SidebarId).hidden
    /\ toggleTranscriptSidebar

\* a click on #betterframe-transcript-toggle
toggleButtonClick ==
    /\ HasId(body, ToggleId)
    /\ toggleTranscriptSidebar

\* the host page renders its player container, without a margin of its own
hostRendersContainer ==
    /\ ~playerContainer.present
    /\ playerContainer' = [present |-> TRUE, marginLeft |-> ""]
    /\ UNCHANGED <<transcriptVars, runVars, playerVars, video, selectLog,
                   loading, storage, popup, editors, commentLog,
                   commentTimers>>

\* the host page takes its player container away
hostRemovesContainer ==
    /\ playerContainer.present
    /\ playerContainer' = NoContainer
    /\ UNCHANGED <<transcriptVars, runVars, playerVars, video, selectLog,
                   loading, storage, popup, editors, commentLog,
                   commentTimers>>

\* runs that start with a click and go through without a failed request,
\* the toggles, and the host's player container
SidebarNext ==
    \/ hostRendersControls
    \/ intervalTick
    \/ storageSet(ContentKeyName, Str(<<"k">>))
    \/ transcribeButtonClick
    \/ \E a \in 1..Len(attempts) : apiKeyCallback(a, FALSE)
    \/ \E a \in 1..Len(attempts) : requestSettles(a, TRUE)
    \/ \E a \in 1..Len(attempts) : pollSettles(a, "completed")
    \/ hideLoadingTimerFires
    \/ closeButtonClick
    \/ toggleButtonClick
    \/ hostRendersContainer
    \/ hostRemovesContainer

SidebarSpec == Init /\ [][SidebarNext]_vars

SidebarThere == HasId(body, SidebarId) /\ HasId(body, ToggleId)
SidebarHidden == GetById(body, SidebarId).hidden
ToggleTitle == GetById(body, ToggleId).title

\* the player container is on the page and the script has set its margin
\* since the host rendered it
ContainerAdjusted == playerContainer.present /\ playerContainer.marginLeft # ""

\* C26 as stated: while the transcript is on the page, the sidebar is hidden
\* exactly when the toggle button's title is 'Show Transcript' and the
\* player container's left margin is 0px, it is visible exactly when the
\* title is 'Hide Transcript' and the margin is 400px, and two toggles in a
\* row give back the state before them.
C26_ToggleInvariant ==
    SidebarThere =>
        /\ SidebarHidden <=> /\ ToggleTitle = "Show Transcript"
                             /\ playerContainer.marginLeft = "0px"
        /\ ~SidebarHidden <=> /\ ToggleTitle = "Hide Transcript"
                              /\ playerContainer.marginLeft = "400px"
        /\ Toggled(Toggled(UI)) = UI

\* C26, amended: the sidebar is hidden exactly when the toggle button's
\* title is 'Show Transcript' and visible exactly when it is 'Hide
\* Transcript', and two toggles in a row give back the sidebar and the
\* button as they were; for a player container whose margin the script has
\* set, the margin is 0px exactly when the sidebar is hidden and 400px
\* exactly when it is visible, and two toggles in a row give it back too.
C26_ToggleInvariantAdjusted ==
    SidebarThere =>
        /\ SidebarHidden <=> ToggleTitle = "Show Transcript"
        /\ ~SidebarHidden <=> ToggleTitle = "Hide Transcript"
        /\ Toggled(Toggled(UI)).body = body
        /\ ContainerAdjusted =>
               /\ SidebarHidden <=> playerContainer.marginLeft = "0px"
               /\ ~SidebarHidden <=> playerContainer.marginLeft = "400px"
               /\ Toggled(Toggled(UI)) = UI

\* a toggle has hidden the sidebar of the second run and has set the
\* container's margin back
C26_Witness ==
    /\ SidebarThere
    /\ GetById(body, SidebarId).owner = 2
    /\ SidebarHidden
    /\ ToggleTitle = "Show Transcript"
    /\ playerContainer.marginLeft = "0px"

====
